---- MODULE Spec2Model ----
(***************************************************************************)
(* State-machine model of the constant-product liquidity pool program of   *)
(* src/src/lib.rs: the entry point process_instruction and its four        *)
(* handlers initialize_pool, add_liquidity, remove_liquidty and swap.      *)
(*                                                                         *)
(* The host runtime is modelled by its contract: one instruction runs to   *)
(* completion at a time, and an instruction that returns an error or       *)
(* panics leaves the pool record and the token ledger as they were.  The   *)
(* token ledger is modelled by the interface the program consumes:         *)
(* transfer, mint_to and burn on balances keyed by account identity; a     *)
(* request is rejected when the source balance is insufficient, or for a   *)
(* reason the program cannot see (input `fault`).                          *)
(***************************************************************************)
EXTENDS Integers, Sequences, FiniteSets, TLC

VARIABLES
    pool_data,   \* storage of the pool account: <<>> (empty) or <<LiquidityPool>>
    bal,         \* token ledger: balance held under each account identity
    last         \* the last instruction processed: inputs, result, requests issued

vars == <<pool_data, bal, last>>

----------------------------------------------------------------------------
(* Bounds of the model *)

WordBits    == 16   \* width standing for the 64 bits of u64
MaxAmount   == 4    \* largest amount carried by an instruction
InitBalance == 4    \* tokens A and B the depositor starts with
MaxReserve  == 6    \* cap on the recorded reserves and supply explored

U64_MAX == 2^WordBits - 1

(* Program constants *)
fee_enumerator  == 30
fee_denumerator == 10000

----------------------------------------------------------------------------
(* Identities (Pubkey values) *)

PROGRAM_ID     == "program_id"
SYSTEM_PROGRAM == "system_program"
SPL_TOKEN      == "spl_token"
FAKE_TOKEN     == "fake_token"

Keys == {"pool", "authority", "mintA", "mintB", "vaultA", "vaultB", "lpMint",
         "userA", "userB", "userLP", "user", "other"}

(* AccountInfo: key, owner, flags, and the mint field its data unpacks to   *)
(* as an spl_token Account ("none" when the data is no token account).      *)
AccountInfo(k, o, w, s, m) ==
    [key |-> k, owner |-> o, is_writable |-> w, is_signer |-> s, mint |-> m]

LiquidityPool(auth, ma, mb, va, vb, lm, sup, ra, rb) ==
    [authority |-> auth, token_a_mint |-> ma, token_b_mint |-> mb,
     token_a_vault |-> va, token_b_vault |-> vb, liquidity_mint |-> lm,
     liquidity_supply |-> sup, token_a_reserve |-> ra, token_b_reserve |-> rb]

----------------------------------------------------------------------------
(* Integer helpers *)

Min(a, b) == IF a <= b THEN a ELSE b

RECURSIVE SqrtSearch(_, _, _)
SqrtSearch(n, lo, hi) ==
    IF lo >= hi THEN lo
    ELSE LET mid == (lo + hi + 1) \div 2
         IN  IF mid <= n \div mid THEN SqrtSearch(n, mid, hi)
             ELSE SqrtSearch(n, lo, mid - 1)

(* num::integer::Roots::sqrt on u128: the floor of the square root *)
Sqrt(n) == SqrtSearch(n, 0, Min(n, U64_MAX))

(* `x as u64` on a u128: truncation to the low word *)
AsU64(x) == x % (U64_MAX + 1)

(* u64::checked_add / checked_sub / checked_mul / checked_div: -1 is None *)
checked_add(a, b) == IF a + b > U64_MAX THEN -1 ELSE a + b
checked_sub(a, b) == IF a < b THEN -1 ELSE a - b
checked_mul(a, b) == IF a * b > U64_MAX THEN -1 ELSE a * b
checked_div(a, b) == IF b = 0 THEN -1 ELSE a \div b

----------------------------------------------------------------------------
(* Token ledger *)

transfer_reversed(from, to, authority, amount) ==
    [op |-> "transfer", from |-> to, to |-> from, authority |-> authority,
     amount |-> amount]

Transfer(from, to, authority, amount) ==
    [op |-> "transfer", from |-> from, to |-> to, authority |-> authority,
     amount |-> amount]
MintTo(mint, to, authority, amount) ==
    [op |-> "mint_to", from |-> mint, to |-> to, authority |-> authority,
     amount |-> amount]
Burn(from, mint, authority, amount) ==
    [op |-> "burn", from |-> from, to |-> mint, authority |-> authority,
     amount |-> amount]

LedgerAccepts(b, c) ==
    CASE c.op = "transfer" -> b[c.from] >= c.amount /\ b[c.to] + c.amount <= U64_MAX
      [] c.op = "mint_to"  -> b[c.to] + c.amount <= U64_MAX
      [] c.op = "burn"     -> b[c.from] >= c.amount

LedgerApply(b, c) ==
    CASE c.op = "transfer" ->
            IF c.from = c.to THEN b
            ELSE [b EXCEPT ![c.from] = @ - c.amount, ![c.to] = @ + c.amount]
      [] c.op = "mint_to"  -> [b EXCEPT ![c.to] = @ + c.amount]
      [] c.op = "burn"     -> [b EXCEPT ![c.from] = @ - c.amount]

(* invoke / invoke_signed: the request, whether the ledger accepted it, and *)
(* the ledger after it.                                                     *)
invoke(b, c, rejected) ==
    IF rejected \/ ~LedgerAccepts(b, c)
    THEN [ok |-> FALSE, bal |-> b, call |-> c]
    ELSE [ok |-> TRUE, bal |-> LedgerApply(b, c), call |-> c]

(* What a handler hands back: its result, the record it serialized (if any), *)
(* the ledger as its accepted requests left it, and the requests it issued.  *)
Outcome(result, data, b, calls) ==
    [result |-> result, data |-> data, bal |-> b, calls |-> calls]

(* A request as the log of an instruction keeps it: with the ledger's answer *)
Logged(r) == [op |-> r.call.op, from |-> r.call.from, to |-> r.call.to,
              authority |-> r.call.authority, amount |-> r.call.amount,
              ok |-> r.ok]

----------------------------------------------------------------------------
(* initialize_pool *)

(* Storage of the pool account is modelled by what it holds: nothing, or a  *)
(* record.  Line 147 serializes the new record into the account's data;     *)
(* the write is taken to succeed on storage that data_is_empty() found to   *)
(* hold no record (storage of length 0 would make borsh's write fail, and   *)
(* no pool could ever be created).                                          *)

(* line 131: pool_state.data_is_empty() negated *)
already_initialized(data) == data # <<>>

same_token_pair_unchecked(token_a_mint, token_b_mint) == FALSE

(* line 113: the two mints are one account *)
same_token_pair(token_a_mint, token_b_mint) == token_a_mint.key = token_b_mint.key

initialize_pool(accounts, data, b) ==
    IF Len(accounts) < 8 THEN Outcome("NotEnoughAccountKeys", data, b, <<>>)
    ELSE
    LET pool_state    == accounts[1]
        authority     == accounts[2]
        token_a_mint  == accounts[3]
        token_b_mint  == accounts[4]
        token_a_vault == accounts[5]
        token_b_vault == accounts[6]
        liquidity_mint == accounts[7]
        token_program == accounts[8]
    IN
    IF ~pool_state.is_writable
        THEN Outcome("InvalidAccount", data, b, <<>>)
    ELSE IF pool_state.owner # PROGRAM_ID /\ pool_state.owner # SYSTEM_PROGRAM
        THEN Outcome("InvalidAccount", data, b, <<>>)
    ELSE IF authority.is_writable
        THEN Outcome("InvalidAccount", data, b, <<>>)
    ELSE IF token_a_mint.owner # token_program.key \/ token_b_mint.owner # token_program.key
        THEN Outcome("InvalidAccount", data, b, <<>>)
    ELSE IF same_token_pair(token_a_mint, token_b_mint)
        THEN Outcome("InvalidAmount", data, b, <<>>)
    ELSE IF token_a_vault.owner # token_program.key \/ token_b_vault.owner # token_program.key
        THEN Outcome("InvalidAccount", data, b, <<>>)
    ELSE IF ~token_a_vault.is_writable \/ ~token_b_vault.is_writable
        THEN Outcome("InvalidAccount", data, b, <<>>)
    ELSE IF token_program.key # SPL_TOKEN
        THEN Outcome("InvalidAccount", data, b, <<>>)
    ELSE IF already_initialized(data)
        THEN Outcome("AlreadyInitialized", data, b, <<>>)
    ELSE Outcome("Ok",
                 <<LiquidityPool(authority.key, token_a_mint.key, token_b_mint.key,
                                 token_a_vault.key, token_b_vault.key,
                                 liquidity_mint.key, 0, 0, 0)>>,
                 b, <<>>)

----------------------------------------------------------------------------
(* add_liquidity *)

liquidity_to_mint_larger(pool, amount_a, amount_b) ==
    IF pool.liquidity_supply = 0
    THEN Sqrt(amount_a * amount_b)
    ELSE IF pool.token_a_reserve = 0 \/ pool.token_b_reserve = 0 THEN -1
    ELSE LET liquidity_a == (amount_a * pool.liquidity_supply) \div pool.token_a_reserve
             liquidity_b == (amount_b * pool.liquidity_supply) \div pool.token_b_reserve
         IN  IF liquidity_a >= liquidity_b THEN liquidity_a ELSE liquidity_b

(* lines 213-220: the shares to mint, as a u128; -1 stands for the panic of *)
(* a division by zero.                                                      *)
liquidity_to_mint(pool, amount_a, amount_b) ==
    IF pool.liquidity_supply = 0
    THEN Sqrt(amount_a * amount_b)
    ELSE IF pool.token_a_reserve = 0 \/ pool.token_b_reserve = 0 THEN -1
    ELSE LET liquidity_a == (amount_a * pool.liquidity_supply) \div pool.token_a_reserve
             liquidity_b == (amount_b * pool.liquidity_supply) \div pool.token_b_reserve
         IN  Min(liquidity_a, liquidity_b)

(* lines 266-269: the record add_liquidity serializes, or the overflow error *)
add_liquidity_update(pool, amount_a, amount_b, minted) ==
    LET ra == checked_add(pool.token_a_reserve, amount_a)
        rb == checked_add(pool.token_b_reserve, amount_b)
        ls == checked_add(pool.liquidity_supply, minted)
    IN  IF ra = -1 \/ rb = -1 \/ ls = -1 THEN <<>>
        ELSE <<[pool EXCEPT !.token_a_reserve = ra, !.token_b_reserve = rb,
                            !.liquidity_supply = ls]>>

add_liquidity(accounts, data, b, amount_a, amount_b, fault) ==
    IF Len(accounts) < 9 THEN Outcome("NotEnoughAccountKeys", data, b, <<>>)
    ELSE
    LET pool_state     == accounts[1]
        user_token_a   == accounts[2]
        user_token_b   == accounts[3]
        token_a_vault  == accounts[4]
        token_b_vault  == accounts[5]
        liquidity_mint == accounts[6]
        user_liquidity == accounts[7]
        token_program  == accounts[8]
        user           == accounts[9]
    IN
    IF ~pool_state.is_writable
        THEN Outcome("InvalidAccount", data, b, <<>>)
    ELSE IF pool_state.owner # PROGRAM_ID
        THEN Outcome("InvalidAccount", data, b, <<>>)
    ELSE IF ~user_token_a.is_writable \/ user_token_a.owner # token_program.key
        THEN Outcome("InvalidAccount", data, b, <<>>)
    ELSE IF ~user_token_b.is_writable \/ user_token_b.owner # token_program.key
        THEN Outcome("InvalidAccount", data, b, <<>>)
    ELSE IF ~token_a_vault.is_writable \/ token_a_vault.owner # token_program.key
        THEN Outcome("InvalidAccount", data, b, <<>>)
    ELSE IF ~token_b_vault.is_writable \/ token_b_vault.owner # token_program.key
        THEN Outcome("InvalidAccount", data, b, <<>>)
    ELSE IF ~liquidity_mint.is_writable \/ liquidity_mint.owner # token_program.key
        THEN Outcome("InvalidAccount", data, b, <<>>)
    ELSE IF ~user_liquidity.is_writable \/ user_liquidity.owner # token_program.key
        THEN Outcome("InvalidAccount", data, b, <<>>)
    ELSE IF token_program.key # SPL_TOKEN
        THEN Outcome("InvalidAccount", data, b, <<>>)
    ELSE IF ~user.is_signer
        THEN Outcome("Unauthorized", data, b, <<>>)
    ELSE IF data = <<>>
        THEN Outcome("BorshIoError", data, b, <<>>)
    ELSE
    LET pool == data[1] IN
    IF pool.token_a_vault # token_a_vault.key \/ pool.token_b_vault # token_b_vault.key
        THEN Outcome("InvalidAccount", data, b, <<>>)
    ELSE IF user_token_a.mint = "none" \/ user_token_b.mint = "none"
        THEN Outcome("InvalidAccountData", data, b, <<>>)
    ELSE IF pool.token_a_mint # user_token_a.mint \/ pool.token_b_mint # user_token_b.mint
        THEN Outcome("InvalidAccount", data, b, <<>>)
    ELSE IF amount_a = 0 \/ amount_b = 0
        THEN Outcome("InvalidAmount", data, b, <<>>)
    ELSE
    LET to_mint == liquidity_to_mint(pool, amount_a, amount_b) IN
    IF to_mint = -1
        THEN Outcome("Panic", data, b, <<>>)
    ELSE IF to_mint = 0
        THEN Outcome("InvalidAmount", data, b, <<>>)
    ELSE
    LET r1 == invoke(b, Transfer(user_token_a.key, token_a_vault.key, user.key, amount_a),
                     fault = 1)
    IN
    IF ~r1.ok THEN Outcome("LedgerError", data, b, <<Logged(r1)>>)
    ELSE
    LET r2 == invoke(r1.bal, Transfer(user_token_b.key, token_b_vault.key, user.key, amount_b),
                     fault = 2)
    IN
    IF ~r2.ok THEN Outcome("LedgerError", data, b, <<Logged(r1), Logged(r2)>>)
    ELSE
    LET r3 == invoke(r2.bal, MintTo(liquidity_mint.key, user_liquidity.key, pool.authority,
                                    AsU64(to_mint)),
                     fault = 3)
        log == <<Logged(r1), Logged(r2), Logged(r3)>>
    IN
    IF ~r3.ok THEN Outcome("LedgerError", data, b, log)
    ELSE
    LET new == add_liquidity_update(pool, amount_a, amount_b, AsU64(to_mint)) IN
    IF new = <<>> THEN Outcome("ArithmeticOverflow", data, b, log)
    ELSE Outcome("Ok", new, r3.bal, log)

----------------------------------------------------------------------------
(* remove_liquidty *)

redeem_amount_short(liquidity_amount, reserve, supply) ==
    IF supply = 0 THEN -1
    ELSE AsU64(((liquidity_amount - 1) * reserve) \div supply)

(* lines 325-326: the payout of one side, a u128 quotient cast to u64; -1 *)
(* stands for the panic of a division by zero.                           *)
redeem_amount(liquidity_amount, reserve, supply) ==
    IF supply = 0 THEN -1
    ELSE AsU64((liquidity_amount * reserve) \div supply)

remove_amount_zero_only(liquidity_amount, pool) == liquidity_amount = 0

(* line 321 *)
remove_amount_invalid(liquidity_amount, pool) ==
    liquidity_amount = 0 \/ liquidity_amount > pool.liquidity_supply

remove_liquidity_update_keeps_supply(pool, amount_a, amount_b, liquidity_amount) ==
    LET ra == checked_sub(pool.token_a_reserve, amount_a)
        rb == checked_sub(pool.token_b_reserve, amount_b)
    IN  IF ra = -1 \/ rb = -1 THEN <<>>
        ELSE <<[pool EXCEPT !.token_a_reserve = ra, !.token_b_reserve = rb]>>

(* lines 377-380: the record remove_liquidty serializes, or the error *)
remove_liquidity_update(pool, amount_a, amount_b, liquidity_amount) ==
    LET ra == checked_sub(pool.token_a_reserve, amount_a)
        rb == checked_sub(pool.token_b_reserve, amount_b)
        ls == checked_sub(pool.liquidity_supply, liquidity_amount)
    IN  IF ra = -1 \/ rb = -1 \/ ls = -1 THEN <<>>
        ELSE <<[pool EXCEPT !.token_a_reserve = ra, !.token_b_reserve = rb,
                            !.liquidity_supply = ls]>>

remove_liquidty(accounts, data, b, liquidity_amount, fault) ==
    IF Len(accounts) < 9 THEN Outcome("NotEnoughAccountKeys", data, b, <<>>)
    ELSE
    LET pool_state     == accounts[1]
        user_liquidity == accounts[2]
        token_a_vault  == accounts[3]
        token_b_vault  == accounts[4]
        user_token_a   == accounts[5]
        user_token_b   == accounts[6]
        liquidity_mint == accounts[7]
        user           == accounts[8]
        token_program  == accounts[9]
    IN
    IF ~pool_state.is_writable \/ pool_state.owner # PROGRAM_ID
        THEN Outcome("InvalidAccount", data, b, <<>>)
    ELSE IF ~user_liquidity.is_writable \/ user_liquidity.owner # token_program.key
        THEN Outcome("InvalidAccount", data, b, <<>>)
    ELSE IF ~token_a_vault.is_writable \/ token_a_vault.owner # token_program.key
        THEN Outcome("InvalidAccount", data, b, <<>>)
    ELSE IF ~token_b_vault.is_writable \/ token_b_vault.owner # token_program.key
        THEN Outcome("InvalidAccount", data, b, <<>>)
    ELSE IF ~user_token_a.is_writable \/ user_token_a.owner # token_program.key
        THEN Outcome("InvalidAccount", data, b, <<>>)
    ELSE IF ~user_token_b.is_writable \/ user_token_b.owner # token_program.key
        THEN Outcome("InvalidAccount", data, b, <<>>)
    ELSE IF ~liquidity_mint.is_writable \/ liquidity_mint.owner # token_program.key
        THEN Outcome("InvalidAccount", data, b, <<>>)
    ELSE IF token_program.key # SPL_TOKEN
        THEN Outcome("InvalidAccount", data, b, <<>>)
    ELSE IF ~user.is_signer
        THEN Outcome("Unauthorized", data, b, <<>>)
    ELSE IF data = <<>>
        THEN Outcome("BorshIoError", data, b, <<>>)
    ELSE
    LET pool == data[1] IN
    IF remove_amount_invalid(liquidity_amount, pool)
        THEN Outcome("InvalidAmount", data, b, <<>>)
    ELSE
    LET amount_a == redeem_amount(liquidity_amount, pool.token_a_reserve, pool.liquidity_supply)
        amount_b == redeem_amount(liquidity_amount, pool.token_b_reserve, pool.liquidity_supply)
    IN
    IF amount_a = -1 \/ amount_b = -1
        THEN Outcome("Panic", data, b, <<>>)
    ELSE IF amount_a = 0 \/ amount_b = 0
        THEN Outcome("InvalidAmount", data, b, <<>>)
    ELSE
    LET r1 == invoke(b, Burn(user_liquidity.key, liquidity_mint.key, user.key, liquidity_amount),
                     fault = 1)
    IN
    IF ~r1.ok THEN Outcome("LedgerError", data, b, <<Logged(r1)>>)
    ELSE
    LET r2 == invoke(r1.bal, Transfer(token_a_vault.key, user_token_a.key, pool.authority, amount_a),
                     fault = 2)
    IN
    IF ~r2.ok THEN Outcome("LedgerError", data, b, <<Logged(r1), Logged(r2)>>)
    ELSE
    LET r3 == invoke(r2.bal, Transfer(token_b_vault.key, user_token_b.key, pool.authority, amount_b),
                     fault = 3)
        log == <<Logged(r1), Logged(r2), Logged(r3)>>
    IN
    IF ~r3.ok THEN Outcome("LedgerError", data, b, log)
    ELSE
    LET new == remove_liquidity_update(pool, amount_a, amount_b, liquidity_amount) IN
    IF new = <<>> THEN Outcome("ArithmeticOverflow", data, b, log)
    ELSE Outcome("Ok", new, r3.bal, log)

----------------------------------------------------------------------------
(* swap *)

swap_amount_unchecked(amount_in) == FALSE

(* line 447 *)
swap_amount_invalid(amount_in) == amount_in = 0

(* lines 460-463: the input net of the fee; -1 is the overflow error *)
amount_in_after_fee(amount_in) ==
    LET m == checked_mul(amount_in, fee_denumerator - fee_enumerator)
    IN  IF m = -1 THEN -1 ELSE checked_div(m, fee_denumerator)

(* line 467 *)
new_input_reserve(input_reserve, after_fee) == input_reserve * after_fee

(* lines 465-472: the output amount; -1 is the overflow error, -2 the panic *)
(* of a division by zero.                                                   *)
swap_amount_out(input_reserve, output_reserve, after_fee) ==
    LET invariant == input_reserve * output_reserve
        nir       == new_input_reserve(input_reserve, after_fee)
    IN  IF nir = 0 THEN -2
        ELSE IF invariant \div nir > U64_MAX THEN -1
        ELSE checked_sub(output_reserve, invariant \div nir)

swap_update_into_supply(pool, amount_in, amount_out, a_to_b) ==
    LET in_res  == IF a_to_b THEN pool.token_a_reserve ELSE pool.token_b_reserve
        out_res == IF a_to_b THEN pool.token_b_reserve ELSE pool.token_a_reserve
        new_in  == checked_add(in_res, amount_in)
    IN  IF new_in = -1 THEN <<>>
        ELSE IF checked_sub(out_res, amount_out) = -1 THEN <<>>
        ELSE IF a_to_b
             THEN <<[pool EXCEPT !.liquidity_supply = new_in,
                                 !.token_b_reserve = checked_sub(out_res, amount_out)]>>
             ELSE <<[pool EXCEPT !.liquidity_supply = new_in,
                                 !.token_a_reserve = checked_sub(out_res, amount_out)]>>

(* lines 508-515: the record swap serializes, or the error *)
swap_update(pool, amount_in, amount_out, a_to_b) ==
    LET in_res  == IF a_to_b THEN pool.token_a_reserve ELSE pool.token_b_reserve
        out_res == IF a_to_b THEN pool.token_b_reserve ELSE pool.token_a_reserve
        new_in  == checked_add(in_res, amount_in)
    IN  IF new_in = -1 THEN <<>>
        ELSE IF checked_sub(out_res, amount_out) = -1 THEN <<>>
        ELSE IF a_to_b
             THEN <<[pool EXCEPT !.token_a_reserve = new_in,
                                 !.token_b_reserve = checked_sub(out_res, amount_out)]>>
             ELSE <<[pool EXCEPT !.token_b_reserve = new_in,
                                 !.token_a_reserve = checked_sub(out_res, amount_out)]>>

(* line 479: what swap does with the ledger's answer to its first transfer. *)
(* The result of invoke_signed is bound to `_`: a rejection does not end    *)
(* the handler.                                                             *)
swap_input_transfer_aborts(r) == FALSE

swap(accounts, data, b, amount_in, a_to_b, fault) ==
    IF Len(accounts) < 7 THEN Outcome("NotEnoughAccountKeys", data, b, <<>>)
    ELSE
    LET pool_state        == accounts[1]
        user_input_token  == accounts[2]
        user_output_token == accounts[3]
        input_vault       == accounts[4]
        output_vault      == accounts[5]
        token_program     == accounts[6]
        user              == accounts[7]
    IN
    IF ~pool_state.is_writable \/ pool_state.owner # PROGRAM_ID
        THEN Outcome("InvalidAccount", data, b, <<>>)
    ELSE IF ~user_input_token.is_writable \/ user_input_token.owner # token_program.key
        THEN Outcome("InvalidAccount", data, b, <<>>)
    ELSE IF ~user_output_token.is_writable \/ user_output_token.owner # token_program.key
        THEN Outcome("InvalidAccount", data, b, <<>>)
    ELSE IF ~input_vault.is_writable \/ input_vault.owner # token_program.key
        THEN Outcome("InvalidAccount", data, b, <<>>)
    ELSE IF ~output_vault.is_writable \/ output_vault.owner # token_program.key
        THEN Outcome("InvalidAccount", data, b, <<>>)
    ELSE IF token_program.key # SPL_TOKEN
        THEN Outcome("InvalidAccount", data, b, <<>>)
    ELSE IF ~user.is_signer
        THEN Outcome("Unauthorized", data, b, <<>>)
    ELSE IF data = <<>>
        THEN Outcome("BorshIoError", data, b, <<>>)
    ELSE
    LET pool == data[1] IN
    IF a_to_b /\ (pool.token_a_vault # input_vault.key \/ pool.token_b_vault # output_vault.key)
        THEN Outcome("InvalidAccount", data, b, <<>>)
    ELSE IF a_to_b /\ (pool.token_a_mint # user_input_token.key
                       \/ pool.token_b_mint # user_output_token.key)
        THEN Outcome("InvalidAccount", data, b, <<>>)
    ELSE IF ~a_to_b /\ (pool.token_b_vault # input_vault.key \/ pool.token_a_vault # output_vault.key)
        THEN Outcome("InvalidAccount", data, b, <<>>)
    ELSE IF ~a_to_b /\ (pool.token_b_mint # user_input_token.key
                        \/ pool.token_a_mint # user_output_token.key)
        THEN Outcome("InvalidAccount", data, b, <<>>)
    ELSE IF swap_amount_invalid(amount_in)
        THEN Outcome("InvalidAmount", data, b, <<>>)
    ELSE
    LET input_reserve  == IF a_to_b THEN pool.token_a_reserve ELSE pool.token_b_reserve
        output_reserve == IF a_to_b THEN pool.token_b_reserve ELSE pool.token_a_reserve
        after_fee      == amount_in_after_fee(amount_in)
    IN
    IF after_fee = -1
        THEN Outcome("ArithmeticOverflow", data, b, <<>>)
    ELSE
    LET amount_out == swap_amount_out(input_reserve, output_reserve, after_fee) IN
    IF amount_out = -2
        THEN Outcome("Panic", data, b, <<>>)
    ELSE IF amount_out = -1
        THEN Outcome("ArithmeticOverflow", data, b, <<>>)
    ELSE IF amount_out = 0
        THEN Outcome("InvalidAmount", data, b, <<>>)
    ELSE
    LET r1 == invoke(b, Transfer(user_input_token.key, input_vault.key, user.key, amount_in),
                     fault = 1)
    IN
    IF swap_input_transfer_aborts(r1) THEN Outcome("LedgerError", data, b, <<Logged(r1)>>)
    ELSE
    LET r2 == invoke(r1.bal, Transfer(output_vault.key, user_output_token.key, pool.authority,
                                      amount_out),
                     fault = 2)
        log == <<Logged(r1), Logged(r2)>>
    IN
    IF ~r2.ok THEN Outcome("LedgerError", data, b, log)
    ELSE
    LET new == swap_update(pool, amount_in, amount_out, a_to_b) IN
    IF new = <<>> THEN Outcome("ArithmeticOverflow", data, b, log)
    ELSE Outcome("Ok", new, r2.bal, log)

----------------------------------------------------------------------------
(* process_instruction *)

(* lines 54-64: the entry point takes nine accounts off the list before it  *)
(* decodes the instruction; the sixth is taken without `?`, the seventh to  *)
(* ninth with it.                                                           *)
EntryAccounts == 9

Instruction(op, amount_a, amount_b, liquidity_amount, amount_in, a_to_b) ==
    [op |-> op, amount_a |-> amount_a, amount_b |-> amount_b,
     liquidity_amount |-> liquidity_amount, amount_in |-> amount_in,
     a_to_b |-> a_to_b]

process_instruction(accounts, instruction, data, b, fault) ==
    IF Len(accounts) < EntryAccounts
        THEN Outcome("NotEnoughAccountKeys", data, b, <<>>)
    ELSE CASE instruction.op = "InitializePool" ->
                initialize_pool(accounts, data, b)
           [] instruction.op = "AddLiquidity" ->
                add_liquidity(accounts, data, b, instruction.amount_a,
                              instruction.amount_b, fault)
           [] instruction.op = "RemoveLiquidity" ->
                remove_liquidty(accounts, data, b, instruction.liquidity_amount, fault)
           [] instruction.op = "Swap" ->
                swap(accounts, data, b, instruction.amount_in, instruction.a_to_b, fault)

----------------------------------------------------------------------------
(* The accounts a caller can supply *)

pool_account      == AccountInfo("pool", PROGRAM_ID, TRUE, FALSE, "none")
authority_account == AccountInfo("authority", SYSTEM_PROGRAM, FALSE, FALSE, "none")
mint_a_account    == AccountInfo("mintA", SPL_TOKEN, TRUE, FALSE, "none")
mint_b_account    == AccountInfo("mintB", SPL_TOKEN, TRUE, FALSE, "none")
vault_a_account   == AccountInfo("vaultA", SPL_TOKEN, TRUE, FALSE, "mintA")
vault_b_account   == AccountInfo("vaultB", SPL_TOKEN, TRUE, FALSE, "mintB")
lp_mint_account   == AccountInfo("lpMint", SPL_TOKEN, TRUE, FALSE, "none")
user_a_account    == AccountInfo("userA", SPL_TOKEN, TRUE, FALSE, "mintA")
user_b_account    == AccountInfo("userB", SPL_TOKEN, TRUE, FALSE, "mintB")
user_lp_account   == AccountInfo("userLP", SPL_TOKEN, TRUE, FALSE, "lpMint")
other_account     == AccountInfo("other", SPL_TOKEN, TRUE, FALSE, "mintA")
token_program_account == AccountInfo(SPL_TOKEN, "loader", FALSE, FALSE, "none")
user_account      == AccountInfo("user", SYSTEM_PROGRAM, TRUE, TRUE, "none")

(* accounts with position i changed in one attribute, or replaced *)
With(accounts, i, f, v) == [accounts EXCEPT ![i] = [@ EXCEPT ![f] = v]]
Replace(accounts, i, a) == [accounts EXCEPT ![i] = a]

(* the same accounts under a token program that is not spl_token *)
UnderFakeToken(accounts) ==
    [i \in 1..Len(accounts) |->
        IF accounts[i].key = SPL_TOKEN THEN [accounts[i] EXCEPT !.key = FAKE_TOKEN]
        ELSE IF accounts[i].owner = SPL_TOKEN THEN [accounts[i] EXCEPT !.owner = FAKE_TOKEN]
        ELSE accounts[i]]

(* the account list each handler documents, in its order *)
InitializeAccounts ==
    <<pool_account, authority_account, mint_a_account, mint_b_account,
      vault_a_account, vault_b_account, lp_mint_account, token_program_account>>
AddAccounts ==
    <<pool_account, user_a_account, user_b_account, vault_a_account, vault_b_account,
      lp_mint_account, user_lp_account, token_program_account, user_account>>
RemoveAccounts ==
    <<pool_account, user_lp_account, vault_a_account, vault_b_account, user_a_account,
      user_b_account, lp_mint_account, user_account, token_program_account>>
(* remove_liquidty's list with the vaults and the caller's accounts both in *)
(* the order B, A                                                          *)
RemoveAccounts_BA ==
    <<pool_account, user_lp_account, vault_b_account, vault_a_account, user_b_account,
      user_a_account, lp_mint_account, user_account, token_program_account>>
SwapAccounts(a_to_b, user_in, user_out) ==
    <<pool_account, user_in, user_out,
      IF a_to_b THEN vault_a_account ELSE vault_b_account,
      IF a_to_b THEN vault_b_account ELSE vault_a_account,
      token_program_account, user_account>>

(* a list padded to the length the entry point takes *)
Padded(accounts) ==
    accounts \o [i \in 1..(EntryAccounts - Len(accounts)) |-> user_account]

InitializeInputs ==
    LET base == Padded(InitializeAccounts) IN
    { base, InitializeAccounts,
      With(base, 1, "is_writable", FALSE),
      With(base, 1, "owner", "other"),
      With(base, 1, "owner", SYSTEM_PROGRAM),
      With(base, 2, "is_writable", TRUE),
      With(base, 3, "owner", "other"),
      Replace(base, 4, mint_a_account),
      With(base, 5, "owner", "other"),
      With(base, 6, "is_writable", FALSE),
      UnderFakeToken(base) }

AddInputs ==
    { AddAccounts, SubSeq(AddAccounts, 1, 8),
      With(AddAccounts, 1, "is_writable", FALSE),
      With(AddAccounts, 1, "owner", SYSTEM_PROGRAM),
      With(AddAccounts, 2, "is_writable", FALSE),
      With(AddAccounts, 3, "owner", "other"),
      With(AddAccounts, 4, "is_writable", FALSE),
      With(AddAccounts, 5, "owner", "other"),
      With(AddAccounts, 6, "is_writable", FALSE),
      With(AddAccounts, 7, "owner", "other"),
      UnderFakeToken(AddAccounts),
      With(AddAccounts, 9, "is_signer", FALSE),
      Replace(AddAccounts, 4, other_account),
      Replace(AddAccounts, 2, lp_mint_account),
      Replace(Replace(AddAccounts, 2, user_b_account), 3, user_a_account) }

RemoveInputs ==
    { RemoveAccounts, SubSeq(RemoveAccounts, 1, 8),
      With(RemoveAccounts, 1, "is_writable", FALSE),
      With(RemoveAccounts, 2, "owner", "other"),
      With(RemoveAccounts, 3, "is_writable", FALSE),
      With(RemoveAccounts, 4, "owner", "other"),
      With(RemoveAccounts, 5, "is_writable", FALSE),
      With(RemoveAccounts, 6, "owner", "other"),
      With(RemoveAccounts, 7, "is_writable", FALSE),
      UnderFakeToken(RemoveAccounts),
      With(RemoveAccounts, 8, "is_signer", FALSE),
      RemoveAccounts_BA }

SwapInputs(a_to_b) ==
    LET mint_in  == IF a_to_b THEN mint_a_account ELSE mint_b_account
        mint_out == IF a_to_b THEN mint_b_account ELSE mint_a_account
        tok_in   == IF a_to_b THEN user_a_account ELSE user_b_account
        tok_out  == IF a_to_b THEN user_b_account ELSE user_a_account
        exact    == SwapAccounts(a_to_b, mint_in, mint_out)
        base     == Padded(exact)
    IN
    { base, exact,
      Padded(SwapAccounts(a_to_b, tok_in, tok_out)),
      Padded(SwapAccounts(~a_to_b, mint_in, mint_out)),
      With(base, 1, "is_writable", FALSE),
      With(base, 2, "is_writable", FALSE),
      With(base, 3, "owner", "other"),
      With(base, 4, "is_writable", FALSE),
      With(base, 5, "owner", "other"),
      UnderFakeToken(base),
      With(base, 7, "is_signer", FALSE),
      With(exact, 7, "is_signer", FALSE) }

(* the lists that pass a handler's account checks on the initialized pool *)
InitializeAccepted ==
    {Padded(InitializeAccounts), With(Padded(InitializeAccounts), 1, "owner", SYSTEM_PROGRAM)}
AddAccepted == {AddAccounts}
RemoveAccepted == {RemoveAccounts, RemoveAccounts_BA}
SwapAccepted(a_to_b) ==
    {Padded(SwapAccounts(a_to_b, IF a_to_b THEN mint_a_account ELSE mint_b_account,
                         IF a_to_b THEN mint_b_account ELSE mint_a_account))}

(* Amounts an instruction carries, and which request of the instruction, if *)
(* any, the ledger rejects for a reason of its own.  A list the handler     *)
(* rejects is tried with a zero and a non-zero amount.                      *)
Amounts(accepted) == IF accepted THEN 0..MaxAmount ELSE {0, 1}
Faults(accepted)  == IF accepted THEN 0..3 ELSE {0}

----------------------------------------------------------------------------
(* The state machine *)

NoInstruction == Instruction("None", 0, 0, 0, 0, FALSE)

Init ==
    /\ pool_data = <<>>
    /\ bal = [k \in Keys |-> IF k \in {"userA", "userB"} THEN InitBalance ELSE 0]
    /\ last = [instruction |-> NoInstruction, accounts |-> <<>>, result |-> "None",
               calls |-> <<>>, pre |-> <<>>]

Capped(data, cap) ==
    data # <<>> =>
        /\ data[1].token_a_reserve <= cap
        /\ data[1].token_b_reserve <= cap
        /\ data[1].liquidity_supply <= cap

(* One instruction, run by the host: its effects are kept when it returns   *)
(* Ok and discarded when it returns an error or panics.  An instruction     *)
(* that fails leaves pool and ledger as they were, so what can follow it is *)
(* what can follow the state before it: runs are continued from there only. *)
Run(instruction, accounts, fault, cap) ==
    LET out == process_instruction(accounts, instruction, pool_data, bal, fault)
        ok  == out.result = "Ok"
    IN  /\ last.result \in {"None", "Ok"}
        /\ pool_data' = IF ok THEN out.data ELSE pool_data
        /\ bal' = IF ok THEN out.bal ELSE bal
        /\ last' = [instruction |-> instruction, accounts |-> accounts,
                    result |-> out.result, calls |-> out.calls, pre |-> pool_data]
        /\ Capped(pool_data', cap)

Process(instruction, accounts, fault) == Run(instruction, accounts, fault, MaxReserve)

Initialize ==
    \E accounts \in InitializeInputs :
        Process(Instruction("InitializePool", 0, 0, 0, 0, FALSE), accounts, 0)

AddLiquidity ==
    \E accounts \in AddInputs :
        \E amount_a \in Amounts(accounts \in AddAccepted),
           amount_b \in Amounts(accounts \in AddAccepted),
           fault \in Faults(accounts \in AddAccepted) :
            Process(Instruction("AddLiquidity", amount_a, amount_b, 0, 0, FALSE),
                    accounts, fault)

RemoveLiquidity ==
    \E accounts \in RemoveInputs :
        \E liquidity_amount \in Amounts(accounts \in RemoveAccepted),
           fault \in Faults(accounts \in RemoveAccepted) :
            Process(Instruction("RemoveLiquidity", 0, 0, liquidity_amount, 0, FALSE),
                    accounts, fault)

Swap ==
    \E a_to_b \in BOOLEAN :
        \E accounts \in SwapInputs(a_to_b) :
            \E amount_in \in Amounts(accounts \in SwapAccepted(a_to_b)),
               fault \in Faults(accounts \in SwapAccepted(a_to_b)) \ {3} :
                Process(Instruction("Swap", 0, 0, 0, amount_in, a_to_b), accounts, fault)

Next == Initialize \/ AddLiquidity \/ RemoveLiquidity \/ Swap

Spec == Init /\ [][Next]_vars

----------------------------------------------------------------------------
(* The same machine on amounts near the top of the word.  The depositor     *)
(* holds what one deposit of WideDeposit on each side and one deposit of    *)
(* WideAmountA and WideAmountB take; swaps carry WideSwap, the largest      *)
(* input whose fee product fits the word, or WideSwapHalf.  Accounts are    *)
(* the accepted lists and the ledger rejects only for insufficient balance. *)
(* Small deposits and swaps are followed while the record stays within      *)
(* WideSwapCap, the wide deposit while the supply stays within              *)
(* WideSupplyCap.                                                           *)

WideDeposit   == 9
WideAmountA   == 50975
WideAmountB   == 29130
WideSwap      == 6
WideSwapHalf  == 3
WideCap       == 60000  \* cap on the record after the wide deposit or a redemption
WideSwapCap   == 15     \* cap on the record after a swap or a deposit of WideDeposit
WideSupplyCap == 20     \* cap on the share supply after a deposit

WideDeposits == {<<WideDeposit, WideDeposit>>, <<WideAmountA, WideAmountB>>}

InitWide ==
    /\ pool_data = <<>>
    /\ bal = [k \in Keys |-> IF k = "userA" THEN WideDeposit + WideAmountA
                              ELSE IF k = "userB" THEN WideDeposit + WideAmountB
                              ELSE 0]
    /\ last = [instruction |-> NoInstruction, accounts |-> <<>>, result |-> "None",
               calls |-> <<>>, pre |-> <<>>]

InitializeWide ==
    Run(Instruction("InitializePool", 0, 0, 0, 0, FALSE), Padded(InitializeAccounts), 0,
        WideCap)

AddLiquidityWide ==
    \E amounts \in WideDeposits :
        /\ Run(Instruction("AddLiquidity", amounts[1], amounts[2], 0, 0, FALSE), AddAccounts,
               0, IF amounts[1] = WideDeposit THEN WideSwapCap ELSE WideCap)
        /\ pool_data' # <<>> => pool_data'[1].liquidity_supply <= WideSupplyCap

RemoveLiquidityWide ==
    \E liquidity_amount \in {WideDeposit} :
        Run(Instruction("RemoveLiquidity", 0, 0, liquidity_amount, 0, FALSE),
            RemoveAccounts, 0, WideCap)

SwapWide ==
    \E a_to_b \in BOOLEAN, amount_in \in {WideSwapHalf, WideSwap} :
        \E accounts \in SwapAccepted(a_to_b) :
            Run(Instruction("Swap", 0, 0, 0, amount_in, a_to_b), accounts, 0, WideSwapCap)

NextWide == InitializeWide \/ AddLiquidityWide \/ RemoveLiquidityWide \/ SwapWide

SpecWide == InitWide /\ [][NextWide]_vars

----------------------------------------------------------------------------
(* Vocabulary of the properties *)

Op        == last.instruction.op
Succeeded == last.result = "Ok"
Before    == last.pre[1]
After     == pool_data[1]
Unchanged == pool_data = last.pre
NoRequest == last.calls = <<>>

(* the reserves of the record `pool` in the direction of the last swap *)
InReserve(pool)  == IF last.instruction.a_to_b THEN pool.token_a_reserve
                    ELSE pool.token_b_reserve
OutReserve(pool) == IF last.instruction.a_to_b THEN pool.token_b_reserve
                    ELSE pool.token_a_reserve

----------------------------------------------------------------------------
(* C1: every successful Swap sends the caller                              *)
(* amount_out = R_out - floor(R_in * R_out / (R_in + amount_in_after_fee)) *)
(* with amount_in_after_fee = floor(amount_in * 9970 / 10000).             *)
ConstantProductOutput(r_in, r_out, amount_in) ==
    r_out - (r_in * r_out) \div (r_in + (amount_in * 9970) \div 10000)

C1_SwapOutputIsConstantProduct ==
    (Op = "Swap" /\ Succeeded) =>
        last.calls[2].amount =
            ConstantProductOutput(InReserve(Before), OutReserve(Before),
                                  last.instruction.amount_in)

(* C2: across every successful Swap, in either direction, the product of   *)
(* the recorded reserves does not decrease.                                *)
C2_SwapProductNonDecreasing ==
    (Op = "Swap" /\ Succeeded) =>
        After.token_a_reserve * After.token_b_reserve
            >= Before.token_a_reserve * Before.token_b_reserve

(* C3: after any sequence of completed operations, the recorded reserves   *)
(* equal the ledger balances of the pool's vaults.                         *)
C3_ReservesEqualVaultBalances ==
    pool_data # <<>> =>
        /\ After.token_a_reserve = bal[After.token_a_vault]
        /\ After.token_b_reserve = bal[After.token_b_vault]

(* C4: in AddLiquidity, RemoveLiquidity and Swap, a request the ledger     *)
(* rejects fails the operation: it returns an error, issues no further     *)
(* request and leaves the record as it was.                                *)
C4_LedgerRejectionAborts ==
    Op \in {"AddLiquidity", "RemoveLiquidity", "Swap"} =>
        \A i \in 1..Len(last.calls) :
            ~last.calls[i].ok =>
                /\ ~Succeeded
                /\ i = Len(last.calls)
                /\ Unchanged

(* C5: in every state of an initialized pool, liquidity_supply is 0 if and *)
(* only if both recorded reserves are 0.                                   *)
C5_SupplyZeroIffReservesZero ==
    pool_data # <<>> =>
        (After.liquidity_supply = 0
            <=> (After.token_a_reserve = 0 /\ After.token_b_reserve = 0))

(* a redemption that has just emptied a pool that held liquidity *)
C5_Witness ==
    /\ Op = "RemoveLiquidity" /\ Succeeded
    /\ Before.liquidity_supply > 0
    /\ After.liquidity_supply = 0

(* C6: every successful AddLiquidity mints floor(sqrt(amount_a * amount_b)) *)
(* shares when the supply is 0 and otherwise                                *)
(* min(floor(amount_a * supply / reserve_a), floor(amount_b * supply /      *)
(* reserve_b)); the reserves grow by amount_a and amount_b and the supply   *)
(* by the shares minted.                                                    *)
IsFloorSqrt(r, n) == r >= 0 /\ r * r <= n /\ (r + 1) * (r + 1) > n

C6_AddLiquidityShares ==
    (Op = "AddLiquidity" /\ Succeeded) =>
        LET a      == last.instruction.amount_a
            b      == last.instruction.amount_b
            minted == last.calls[3].amount
        IN  /\ last.calls[3].op = "mint_to"
            /\ IF Before.liquidity_supply = 0
               THEN IsFloorSqrt(minted, a * b)
               ELSE minted = Min((a * Before.liquidity_supply) \div Before.token_a_reserve,
                                 (b * Before.liquidity_supply) \div Before.token_b_reserve)
            /\ After.token_a_reserve = Before.token_a_reserve + a
            /\ After.token_b_reserve = Before.token_b_reserve + b
            /\ After.liquidity_supply = Before.liquidity_supply + minted

(* C7: a successful RemoveLiquidity of the whole supply pays out exactly   *)
(* the two recorded reserves and leaves reserves and supply at 0.          *)
C7_FullRedemptionEmptiesPool ==
    (/\ Op = "RemoveLiquidity" /\ Succeeded
     /\ last.instruction.liquidity_amount = Before.liquidity_supply) =>
        /\ last.calls[2].op = "transfer"
        /\ last.calls[2].amount = Before.token_a_reserve
        /\ last.calls[3].op = "transfer"
        /\ last.calls[3].amount = Before.token_b_reserve
        /\ After.token_a_reserve = 0
        /\ After.token_b_reserve = 0
        /\ After.liquidity_supply = 0

(* the whole supply redeemed from a pool whose reserves differ *)
C7_Witness ==
    /\ Op = "RemoveLiquidity" /\ Succeeded
    /\ last.instruction.liquidity_amount = Before.liquidity_supply
    /\ Before.token_a_reserve # Before.token_b_reserve
    /\ Before.token_a_reserve > Before.liquidity_supply

(* C8: RemoveLiquidity with liquidity_amount = 0, liquidity_amount above   *)
(* the supply, or a payout that floors to 0.                               *)
C8_Case ==
    /\ Op = "RemoveLiquidity"
    /\ last.pre # <<>>
    /\ LET l == last.instruction.liquidity_amount
           s == Before.liquidity_supply
       IN  \/ l = 0
           \/ l > s
           \/ (l * Before.token_a_reserve) \div s = 0
           \/ (l * Before.token_b_reserve) \div s = 0

(* C8 as stated: in that case the operation fails with InvalidAmount,      *)
(* issues no burn or transfer and leaves the record unchanged.             *)
C8_RemoveRejectsWithInvalidAmount ==
    C8_Case => (last.result = "InvalidAmount" /\ NoRequest /\ Unchanged)

(* C8 as amended: in that case the operation fails, issues no burn or      *)
(* transfer and leaves the record unchanged; the error is InvalidAmount    *)
(* when the accounts pass the checks that come before the amount checks,   *)
(* and no successful RemoveLiquidity redeems more than the supply.         *)
C8_RemoveRejectsBadAmount ==
    /\ C8_Case =>
        /\ ~Succeeded /\ NoRequest /\ Unchanged
        /\ last.accounts \in RemoveAccepted => last.result = "InvalidAmount"
    /\ (Op = "RemoveLiquidity" /\ Succeeded) =>
        last.instruction.liquidity_amount <= Before.liquidity_supply

(* a payout that floors to 0 on a pool that holds liquidity *)
C8_Witness ==
    /\ C8_Case
    /\ last.accounts \in RemoveAccepted
    /\ last.instruction.liquidity_amount > 0
    /\ last.instruction.liquidity_amount <= Before.liquidity_supply
    /\ last.result = "InvalidAmount"

(* C9: an amount of 0 in AddLiquidity, RemoveLiquidity or Swap is rejected *)
(* with an error before any request to the ledger, record unchanged.       *)
C9_Case ==
    \/ Op = "AddLiquidity"
        /\ (last.instruction.amount_a = 0 \/ last.instruction.amount_b = 0)
    \/ Op = "RemoveLiquidity" /\ last.instruction.liquidity_amount = 0
    \/ Op = "Swap" /\ last.instruction.amount_in = 0

C9_ZeroAmountRejected ==
    C9_Case => (last.result \notin {"Ok", "Panic"} /\ NoRequest /\ Unchanged)

(* a swap of 0 with accepted accounts on a pool that holds reserves *)
C9_Witness ==
    /\ Op = "Swap" /\ last.instruction.amount_in = 0
    /\ last.accounts \in SwapAccepted(last.instruction.a_to_b)
    /\ last.pre # <<>>
    /\ Before.token_a_reserve > 0 /\ Before.token_b_reserve > 0
    /\ last.result = "InvalidAmount"

(* C10: Initialize on non-empty storage fails with AlreadyInitialized      *)
(* whatever the accounts, and leaves the record as it was.                 *)
C10_InitializeAlwaysAlreadyInitialized ==
    (Op = "InitializePool" /\ last.pre # <<>>) =>
        (last.result = "AlreadyInitialized" /\ Unchanged)

(* C11: whenever Initialize succeeds, the record persisted has supply and  *)
(* reserves 0, its identity fields are the keys of the accounts supplied   *)
(* in positions 2 to 7, and its two mints differ.                          *)
C11_InitializeRecord ==
    (Op = "InitializePool" /\ Succeeded) =>
        /\ After = LiquidityPool(last.accounts[2].key, last.accounts[3].key,
                                 last.accounts[4].key, last.accounts[5].key,
                                 last.accounts[6].key, last.accounts[7].key, 0, 0, 0)
        /\ After.token_a_mint # After.token_b_mint

(* Initialize accepted on empty storage *)
C11_Witness ==
    /\ Op = "InitializePool" /\ Succeeded
    /\ last.pre = <<>>
    /\ pool_data # <<>>

(* the accounts each handler takes off its list (its next_account_info      *)
(* calls)                                                                   *)
accounts_required(op) ==
    CASE op = "InitializePool"  -> 8
      [] op = "AddLiquidity"    -> 9
      [] op = "RemoveLiquidity" -> 9
      [] op = "Swap"            -> 7

(* C12: an instruction that comes with the number of accounts its handler  *)
(* takes is not rejected for the account count, and InitializePool with    *)
(* exactly its 8 valid accounts on empty storage is accepted.              *)
C12_ExactAccountCountAccepted ==
    /\ (Op # "None" /\ Len(last.accounts) >= accounts_required(Op)) =>
            last.result # "NotEnoughAccountKeys"
    /\ (Op = "InitializePool" /\ last.accounts = InitializeAccounts /\ last.pre = <<>>) =>
            Succeeded

(* C13: an AddLiquidity or a Swap whose update would carry a reserve or the *)
(* supply above the largest word value.                                     *)
C13_Case ==
    /\ last.pre # <<>>
    /\ \/ /\ Op = "AddLiquidity"
          /\ last.accounts \in AddAccepted
          /\ last.instruction.amount_a > 0 /\ last.instruction.amount_b > 0
          /\ LET a      == last.instruction.amount_a
                 b      == last.instruction.amount_b
                 shares == liquidity_to_mint(Before, a, b)
             IN  \/ Before.token_a_reserve + a > U64_MAX
                 \/ Before.token_b_reserve + b > U64_MAX
                 \/ (shares > 0 /\ Before.liquidity_supply + shares > U64_MAX)
       \/ /\ Op = "Swap"
          /\ last.accounts \in SwapAccepted(last.instruction.a_to_b)
          /\ InReserve(Before) + last.instruction.amount_in > U64_MAX

(* C13: in that case the operation fails with ArithmeticOverflow and the   *)
(* record is left as it was; no field is persisted reduced modulo the word.*)
C13_OverflowRejected ==
    C13_Case => (last.result = "ArithmeticOverflow" /\ Unchanged)

(* the position of the user account in each handler's list *)
user_position(op) ==
    CASE op = "AddLiquidity"    -> 9
      [] op = "RemoveLiquidity" -> 8
      [] op = "Swap"            -> 7

(* C14: an AddLiquidity, RemoveLiquidity or Swap whose user account is not  *)
(* a signer fails with Unauthorized, with no request to the ledger and the  *)
(* record as it was.                                                        *)
C14_Case ==
    /\ Op \in {"AddLiquidity", "RemoveLiquidity", "Swap"}
    /\ Len(last.accounts) >= user_position(Op)
    /\ ~last.accounts[user_position(Op)].is_signer

C14_UnsignedUserUnauthorized ==
    C14_Case => (last.result = "Unauthorized" /\ NoRequest /\ Unchanged)

(* the requests each operation is to issue, in order, as <<op, from, to>>   *)
(* over the positions of its account list                                   *)
requests_in_order(op, accounts) ==
    LET key(i) == accounts[i].key IN
    CASE op = "AddLiquidity" ->
            << <<"transfer", key(2), key(4)>>, <<"transfer", key(3), key(5)>>,
               <<"mint_to", key(6), key(7)>> >>
      [] op = "RemoveLiquidity" ->
            << <<"burn", key(2), key(7)>>, <<"transfer", key(3), key(5)>>,
               <<"transfer", key(4), key(6)>> >>
      [] op = "Swap" ->
            << <<"transfer", key(2), key(4)>>, <<"transfer", key(5), key(3)>> >>
      [] OTHER -> << >>

C16_Case ==
    /\ Op = "Swap"
    /\ last.pre # <<>>
    /\ last.accounts \in SwapAccepted(last.instruction.a_to_b)
    /\ last.instruction.amount_in > 0
    /\ \/ (last.instruction.amount_in * 9970) \div 10000 = 0
       \/ InReserve(Before) = 0

(* C16: such a Swap is rejected with InvalidAmount, record unchanged, and  *)
(* never ends in an arithmetic fault.                                      *)
C16_ZeroOutputIsInvalidAmount ==
    C16_Case => (last.result = "InvalidAmount" /\ Unchanged)

(* C17: a Swap on an existing pool whose accounts pass the checks of flags, *)
(* owners, token program and signer (lines 398-424).                        *)
C17_Case ==
    /\ Op = "Swap"
    /\ last.pre # <<>>
    /\ Len(last.accounts) >= EntryAccounts
    /\ last.accounts[1].is_writable /\ last.accounts[1].owner = PROGRAM_ID
    /\ \A i \in 2..5 : last.accounts[i].is_writable /\ last.accounts[i].owner = SPL_TOKEN
    /\ last.accounts[6].key = SPL_TOKEN
    /\ last.accounts[7].is_signer

(* the vaults are the pool's for the declared direction and the caller's   *)
(* token accounts hold the pool's mints for it                             *)
C17_IdentitiesMatch ==
    LET a_to_b == last.instruction.a_to_b
        vault_in  == IF a_to_b THEN Before.token_a_vault ELSE Before.token_b_vault
        vault_out == IF a_to_b THEN Before.token_b_vault ELSE Before.token_a_vault
        mint_in   == IF a_to_b THEN Before.token_a_mint ELSE Before.token_b_mint
        mint_out  == IF a_to_b THEN Before.token_b_mint ELSE Before.token_a_mint
    IN  /\ last.accounts[4].key = vault_in
        /\ last.accounts[5].key = vault_out
        /\ last.accounts[2].mint = mint_in
        /\ last.accounts[3].mint = mint_out

(* C17: Swap rejects the accounts with InvalidAccount, before any request, *)
(* exactly when those identities do not match.                             *)
C17_SwapAcceptsMatchingIdentities ==
    C17_Case =>
        IF C17_IdentitiesMatch
        THEN last.result # "InvalidAccount"
        ELSE last.result = "InvalidAccount" /\ NoRequest

(* C18: a successful AddLiquidity mints a positive amount, the share value *)
(* computed, and that value fits the word: a share value beyond the word   *)
(* fails the operation.                                                    *)
C18_MintsComputedShares ==
    (Op = "AddLiquidity" /\ Succeeded) =>
        LET shares == liquidity_to_mint(Before, last.instruction.amount_a,
                                        last.instruction.amount_b)
        IN  /\ shares <= U64_MAX
            /\ last.calls[3].amount > 0
            /\ last.calls[3].amount = shares
            /\ After.liquidity_supply - Before.liquidity_supply = shares

(* C19: a successful AddLiquidity on a pool that has shares outstanding, or *)
(* a successful RemoveLiquidity that leaves shares outstanding.             *)
C19_Case ==
    \/ Op = "AddLiquidity" /\ Succeeded /\ Before.liquidity_supply > 0
    \/ Op = "RemoveLiquidity" /\ Succeeded /\ After.liquidity_supply > 0

(* C19: the backing of a share does not decrease on either side:           *)
(* reserve' * supply >= reserve * supply'.                                 *)
C19_NoDilution ==
    C19_Case =>
        /\ After.token_a_reserve * Before.liquidity_supply
                >= Before.token_a_reserve * After.liquidity_supply
        /\ After.token_b_reserve * Before.liquidity_supply
                >= Before.token_b_reserve * After.liquidity_supply

(* a deposit out of proportion on a pool that has shares outstanding *)
C19_Witness ==
    /\ Op = "AddLiquidity" /\ Succeeded /\ Before.liquidity_supply > 0
    /\ last.instruction.amount_a * Before.token_b_reserve
            # last.instruction.amount_b * Before.token_a_reserve

(* C20: in every state of a pool with shares outstanding both reserves are *)
(* positive, and a RemoveLiquidity of the whole supply, with the accepted  *)
(* accounts of a signer, is not rejected by the program (it completes, or  *)
(* only the ledger turns a request down).                                  *)
C20_LiquidityWithdrawable ==
    (pool_data # <<>> /\ After.liquidity_supply > 0) =>
        /\ After.token_a_reserve > 0
        /\ After.token_b_reserve > 0
        /\ remove_liquidty(RemoveAccounts, pool_data, bal, After.liquidity_supply, 0).result
                \in {"Ok", "LedgerError"}

(* the identity fields of a record *)
identity_fields(pool) ==
    <<pool.authority, pool.token_a_mint, pool.token_b_mint, pool.token_a_vault,
      pool.token_b_vault, pool.liquidity_mint>>

(* C21: AddLiquidity, RemoveLiquidity and Swap leave the identity fields   *)
(* of the record as they were; Swap also leaves liquidity_supply as it was *)
(* and changes the reserves only; an operation that returns an error       *)
(* leaves every field as it was.                                           *)
C21_FrameOfTheRecord ==
    /\ (Op \in {"AddLiquidity", "RemoveLiquidity", "Swap"} /\ last.pre # <<>>) =>
            /\ pool_data # <<>>
            /\ identity_fields(After) = identity_fields(Before)
    /\ (Op = "Swap" /\ last.pre # <<>>) =>
            After.liquidity_supply = Before.liquidity_supply
    /\ (Op # "None" /\ ~Succeeded) => Unchanged

(* a swap that has changed both reserves *)
C21_Witness ==
    /\ Op = "Swap" /\ Succeeded
    /\ After.token_a_reserve # Before.token_a_reserve
    /\ After.token_b_reserve # Before.token_b_reserve
    /\ Before.liquidity_supply > 0

====
